---------------------------- MODULE Spec2Model ----------------------------
(***************************************************************************)
(* A model of pyhfs: the Session login / retry machinery (session.py) and  *)
(* the pagination and batching loops of the Client (client.py).            *)
(***************************************************************************)
EXTENDS Integers, Sequences, FiniteSets, TLC

VARIABLES
    \* ---- Session (session.py) ----
    pc,           \* position of the caller inside a Session operation
    op,           \* the public operation called last (or running)
    ep,           \* endpoint argument of the running / last post()
    login_again,  \* local variable of post()
    hist,         \* the network calls of the current operation, in order
    result,       \* what the last operation returned or raised
    xsrf,         \* session.headers["XSRF-TOKEN"]
    cookies,      \* session.cookies (the XSRF-TOKEN cookie of the jar)
    closed,       \* session.close() was called
    \* ---- Client (client.py) ----
    cop,          \* the Client operation called last (or running)
    cpc,          \* "idle", "loop" (inside the request loop) or "done"
    carg,         \* the arguments of the operation
    page,         \* get_plant_list: the page counter of itertools.count
    plants,       \* get_plant_list: the local mapping code -> Plant
    todo,         \* the batches the for loops have still to request
    data,         \* _get_plant_data / _get_device_data: the local list
    creqs,        \* parameters of the requests sent so far, in order
    cresps,       \* the answers of session.post, in order
    cres,         \* what the operation returned or raised
    \* ---- Record types (api/) ----
    RT_DEVICE_CLASSES,   \* device_rt_data.py: type code -> realtime class
    RPT_DEVICE_CLASSES,  \* device_rpt_data.py: type code -> report class
    log,          \* the log records of the last operation, in order
    snapshot,     \* the plants saved last (the snapshot file)
    loaded,       \* the plants reloaded last from the snapshot
    self_data     \* the backing map (_data) of the record last read

svars == <<pc, op, ep, login_again, hist, result, xsrf, cookies, closed>>
cvars == <<cop, cpc, carg, page, plants, todo, data, creqs, cresps, cres>>

ovars == <<RT_DEVICE_CLASSES, RPT_DEVICE_CLASSES, log, snapshot, loaded, self_data>>

vars == <<svars, cvars, ovars>>

-----------------------------------------------------------------------------
(* Bounds *)

\* Largest number of network calls followed inside one operation.
MaxNet == 4

-----------------------------------------------------------------------------
(* Server responses *)

NoTok == "none"
Bodies == {"b1", "b2"}
Descs == {"d1", "d2"}
Endpoints == {"stations", "getDevList"}
FailCodes == {305, 401, 407, 20001, 20002, 20003, 999}

Resp(t, code, desc, body, hdr, cookie) ==
    [t |-> t, code |-> code, desc |-> desc, body |-> body, hdr |-> hdr, cookie |-> cookie]

\* success = true; the token comes in a header, in a cookie, or not at all
OkResps ==
    { Resp("ok", 0, "", b, tk[1], tk[2]) :
        b \in Bodies,
        tk \in {<<"t1", NoTok>>, <<"t2", NoTok>>, <<NoTok, "t3">>, <<NoTok, NoTok>>} }
\* success = false, with a failCode and a description
FailResps == { Resp("fail", c, d, "", NoTok, NoTok) : c \in FailCodes, d \in Descs }
\* a body that is not JSON (response.json() raises)
BadJson == Resp("badjson", 0, "", "", NoTok, NoTok)
\* an HTTP error status (raise_for_status() raises)
HttpErr == Resp("http", 0, "", "", NoTok, NoTok)

Resps == OkResps \cup FailResps \cup {BadJson, HttpErr}

-----------------------------------------------------------------------------
(* Outcomes of a call: a returned value or a raised exception *)

NoResult == [t |-> "none", kind |-> "", code |-> 0, desc |-> "", body |-> ""]
Return(body) == [t |-> "return", kind |-> "", code |-> 0, desc |-> "", body |-> body]
Raise(kind, code, desc) == [t |-> "raise", kind |-> kind, code |-> code, desc |-> desc, body |-> ""]

\* exception.py: the internal-only kinds (subclasses of _InternalException)
InternalKinds == {"_305_NotLogged"}

\* exception.py: fail code -> exception class; unknown codes give the generic
\* Exception carrying the code and the description.
_FailCodeToException(body) ==
    CASE body.code = 305 -> Raise("_305_NotLogged", body.code, body.desc)
      [] body.code = 401 -> Raise("Permission", body.code, body.desc)
      [] body.code = 407 -> Raise("FrequencyLimit", body.code, body.desc)
      [] body.code \in {20001, 20002, 20003} -> Raise("LoginFailed", body.code, body.desc)
      [] OTHER -> Raise("Exception", body.code, body.desc)

\* The decorator of every public Session method.
exceptions_sanity(o) ==
    IF o.t = "raise" /\ o.kind \in InternalKinds
    THEN Raise("Exception", o.code, o.desc)
    ELSE o

\* Session._raw_post, as a function of the server's response.
_raw_post_generic(r) ==
    CASE r.t = "http" -> Raise("HTTPError", 0, "")
      [] r.t = "badjson" -> Raise("JSONDecodeError", 0, "")
      [] r.t = "fail" -> Raise("Exception", r.code, r.desc)
      [] OTHER -> Return(r.body)
_raw_post(r) ==
    CASE r.t = "http" -> Raise("HTTPError", 0, "")
      [] r.t = "badjson" -> Raise("JSONDecodeError", 0, "")
      [] r.t = "fail" -> _FailCodeToException(r)
      [] OTHER -> Return(r.body)

IsNotLogged_permission(o) == o.t = "raise" /\ o.kind \in {"_305_NotLogged", "Permission"}
IsNotLogged(o) == o.t = "raise" /\ o.kind = "_305_NotLogged"

\* The request as sent: endpoint, the token header and cookie it carries,
\* and the response the server gave.
Sent(e, r) == [ep |-> e, resp |-> r, hdr |-> xsrf, ck |-> cookies]
\* login() clears the cookie jar before it sends.
SentLogin(r) == [ep |-> "login", resp |-> r, hdr |-> xsrf, ck |-> NoTok]

\* The cookie jar after a response.
Jar(old, r) == IF r.cookie # NoTok THEN r.cookie ELSE old

\* Session.login (decorated): its outcome ...
login_nojson(r) ==
    LET o == _raw_post(r) IN
    exceptions_sanity(IF IsNotLogged(o) THEN Raise("LoginFailed", 0, "") ELSE o)
login_result(r) ==
    LET o == _raw_post(r) IN
    exceptions_sanity(
        IF IsNotLogged(o) THEN Raise("LoginFailed", 0, "")
        ELSE IF o.t = "raise" /\ o.kind = "JSONDecodeError" THEN Raise("LoginFailed", 0, "")
        ELSE IF o.t = "return" THEN Return("")
        ELSE o)
\* ... and the token header it leaves.
login_xsrf_header_only(r) ==
    IF _raw_post(r).t = "return" THEN r.hdr ELSE xsrf
login_xsrf(r) ==
    IF _raw_post(r).t = "return"
    THEN (IF r.hdr # NoTok THEN r.hdr ELSE r.cookie)
    ELSE xsrf

\* Session.logout (decorated): its outcome.
logout_noswallow(r) == exceptions_sanity(_raw_post(r))
logout_result(r) ==
    LET o == _raw_post(r) IN
    exceptions_sanity(IF IsNotLogged(o) \/ o.t = "return" THEN Return("") ELSE o)

-----------------------------------------------------------------------------
(* Session operations *)

SInit ==
    /\ pc = "idle"
    /\ op = "none"
    /\ ep = "none"
    /\ login_again = FALSE
    /\ hist = <<>>
    /\ result = NoResult
    /\ xsrf = NoTok
    /\ cookies = NoTok
    /\ closed = FALSE

\* session.login()
login(r) ==
    /\ pc = "idle"
    /\ op' = "login"
    /\ hist' = <<SentLogin(r)>>
    /\ result' = login_result(r)
    /\ xsrf' = login_xsrf(r)
    /\ cookies' = Jar(NoTok, r)
    /\ UNCHANGED <<pc, ep, login_again, closed, cvars, ovars>>

\* session.logout()
logout(r) ==
    /\ pc = "idle"
    /\ op' = "logout"
    /\ hist' = <<Sent("logout", r)>>
    /\ result' = logout_result(r)
    /\ cookies' = Jar(cookies, r)
    /\ UNCHANGED <<pc, ep, login_again, xsrf, closed, cvars, ovars>>

\* with Session(...) as s:   (scope entry)
enter(r) ==
    /\ pc = "idle"
    /\ op' = "enter"
    /\ hist' = <<SentLogin(r)>>
    /\ result' = exceptions_sanity(login_result(r))
    /\ xsrf' = login_xsrf(r)
    /\ cookies' = Jar(NoTok, r)
    /\ UNCHANGED <<pc, ep, login_again, closed, cvars, ovars>>

\* scope exit: logout(), then session.close() when logout() did not raise
exit(r) ==
    /\ pc = "idle"
    /\ op' = "exit"
    /\ hist' = <<Sent("logout", r)>>
    /\ result' = exceptions_sanity(logout_result(r))
    /\ cookies' = Jar(cookies, r)
    /\ closed' = IF logout_result(r).t = "return" THEN TRUE ELSE closed
    /\ UNCHANGED <<pc, ep, login_again, xsrf, cvars, ovars>>

\* session.post(endpoint, parameters): entry, login_again = False
post_call(e) ==
    /\ pc = "idle"
    /\ op' = "post"
    /\ ep' = e
    /\ login_again' = FALSE
    /\ hist' = <<>>
    /\ result' = NoResult
    /\ pc' = "post_top"
    /\ UNCHANGED <<xsrf, cookies, closed, cvars, ovars>>

\* top of the loop, login_again false: nothing to do before the request
post_top_skip ==
    /\ pc = "post_top"
    /\ ~login_again
    /\ pc' = "post_try"
    /\ UNCHANGED <<op, ep, login_again, hist, result, xsrf, cookies, closed, cvars, ovars>>

\* top of the loop, login_again true: self.login()
post_top_login_always(r) ==
    /\ pc = "post_top"
    /\ Len(hist) < MaxNet
    /\ hist' = Append(hist, SentLogin(r))
    /\ xsrf' = login_xsrf(r)
    /\ cookies' = Jar(NoTok, r)
    /\ IF login_result(r).t = "raise"
       THEN /\ result' = exceptions_sanity(login_result(r))
            /\ pc' = "idle"
       ELSE /\ pc' = "post_try"
            /\ UNCHANGED result
    /\ UNCHANGED <<op, ep, login_again, closed, cvars, ovars>>
post_top_login_ignore(r) ==
    /\ pc = "post_top"
    /\ login_again
    /\ Len(hist) < MaxNet
    /\ hist' = Append(hist, SentLogin(r))
    /\ xsrf' = login_xsrf(r)
    /\ cookies' = Jar(NoTok, r)
    /\ pc' = "post_try"
    /\ UNCHANGED <<op, ep, login_again, result, closed, cvars, ovars>>
post_top_login(r) ==
    /\ pc = "post_top"
    /\ login_again
    /\ Len(hist) < MaxNet
    /\ hist' = Append(hist, SentLogin(r))
    /\ xsrf' = login_xsrf(r)
    /\ cookies' = Jar(NoTok, r)
    /\ IF login_result(r).t = "raise"
       THEN /\ result' = exceptions_sanity(login_result(r))
            /\ pc' = "idle"
       ELSE /\ pc' = "post_try"
            /\ UNCHANGED result
    /\ UNCHANGED <<op, ep, login_again, closed, cvars, ovars>>

\* the try block: the request, and the handler of the not-logged signal
post_try_unsanitized(r) ==
    /\ pc = "post_try"
    /\ Len(hist) < MaxNet
    /\ hist' = Append(hist, Sent(ep, r))
    /\ cookies' = Jar(cookies, r)
    /\ result' = _raw_post(r)
    /\ pc' = "idle"
    /\ UNCHANGED <<op, ep, login_again, xsrf, closed, cvars, ovars>>
post_try_nologin(r) ==
    /\ pc = "post_try"
    /\ Len(hist) < MaxNet
    /\ hist' = Append(hist, Sent(ep, r))
    /\ cookies' = Jar(cookies, r)
    /\ LET o == _raw_post(r) IN
       IF IsNotLogged(o)
       THEN /\ pc' = "post_top"
            /\ UNCHANGED <<result, login_again>>
       ELSE /\ result' = exceptions_sanity(o)
            /\ pc' = "idle"
            /\ UNCHANGED login_again
    /\ UNCHANGED <<op, ep, xsrf, closed, cvars, ovars>>
post_try(r) ==
    /\ pc = "post_try"
    /\ Len(hist) < MaxNet
    /\ hist' = Append(hist, Sent(ep, r))
    /\ cookies' = Jar(cookies, r)
    /\ LET o == _raw_post(r) IN
       IF IsNotLogged(o)
       THEN /\ login_again' = TRUE
            /\ pc' = "post_top"
            /\ UNCHANGED result
       ELSE /\ result' = exceptions_sanity(o)
            /\ pc' = "idle"
            /\ UNCHANGED login_again
    /\ UNCHANGED <<op, ep, xsrf, closed, cvars, ovars>>

SNext ==
    \/ \E r \in Resps : login(r)
    \/ \E r \in Resps : logout(r)
    \/ \E r \in Resps : enter(r)
    \/ \E r \in Resps : exit(r)
    \/ \E e \in Endpoints : post_call(e)
    \/ post_top_skip
    \/ \E r \in Resps : post_top_login(r)
    \/ \E r \in Resps : post_try(r)

-----------------------------------------------------------------------------
(* Record types: the registries of decoding classes and the decoding *)

\* RT_DEVICE_CLASSES once device_rt_data.py is imported
RT_imported ==
    (-1 :> "DeviceRTData") @@ (1 :> "DeviceRTDataSInverter")
    @@ (38 :> "DeviceRTDataRInverter") @@ (10 :> "DeviceRTDataEMI")
    @@ (17 :> "DeviceRTDataGMeter") @@ (47 :> "DeviceRTDataPSensor")
    @@ (39 :> "DeviceRTDataRBattery") @@ (41 :> "DeviceRTDataCI")
    @@ (60001 :> "DeviceRTDataMains") @@ (60003 :> "DeviceRTDataGenset")
    @@ (60043 :> "DeviceRTDataSSUG") @@ (60044 :> "DeviceRTDataSSU")
    @@ (60092 :> "DeviceRTDataPConv") @@ (60014 :> "DeviceRTDataLBat")
    @@ (60010 :> "DeviceRTDataACOut")
\* RPT_DEVICE_CLASSES once device_rpt_data.py is imported
RPT_imported ==
    (-1 :> "DeviceRptData") @@ (39 :> "DeviceRptDataRBattery")
    @@ (1 :> "DeviceRptDataSInverter") @@ (38 :> "DeviceRptDataRInverter")
    @@ (41 :> "DeviceRptDataCI")

\* a log record: the level, the logger it goes through and its subject
LogRecord(level, logger, about) == [level |-> level, logger |-> logger, about |-> about]

\* exceptions of the record types
ORaise(kind, about) == [t |-> "raise", kind |-> kind, about |-> about]

\* DeviceRTData.__init__ / DeviceRptData.__init__ (inherited by every class)
DeviceData(cls, item, devices) ==
    IF item.devId \notin DOMAIN devices
    THEN ORaise("ValueError", item.devId)
    ELSE [t |-> "return",
          val |-> [cls |-> cls, _data |-> item, _dev_id |-> item.devId,
                   _device |-> devices[item.devId]]]

\* the class chosen for an item whose device is known
DataCls_default(classes, device) == classes[-1]
DataCls(classes, device) ==
    IF device.dev_type_id \notin DOMAIN classes
    THEN classes[-1]
    ELSE classes[device.dev_type_id]

\* the items that precede the first item of an unknown device (all of them
\* when every device is known): the iterations the for loop completes
Decoded(items, devices) ==
    {i \in DOMAIN items : \A j \in 1..i : items[j].devId \in DOMAIN devices}

\* from_list of either domain: the result ...
from_list_lenient(classes, items, devices) ==
    [t |-> "return",
     val |-> LET ok == SelectSeq(items, LAMBDA it : it.devId \in DOMAIN devices)
             IN [i \in DOMAIN ok |->
                    DeviceData(DataCls(classes, devices[ok[i].devId]), ok[i], devices).val]]
from_list(classes, items, devices) ==
    IF Decoded(items, devices) # DOMAIN items
    THEN ORaise("ValueError", items[Cardinality(Decoded(items, devices)) + 1].devId)
    ELSE [t |-> "return",
          val |-> [i \in DOMAIN items |->
                    DeviceData(DataCls(classes, devices[items[i].devId]), items[i], devices).val]]
\* ... and the records it logs: logging.error, on the root logger, for every
\* decoded item whose device type has no class
from_list_log(classes, items, devices) ==
    LET un == SelectSeq([i \in DOMAIN items |-> i],
                        LAMBDA i : /\ i \in Decoded(items, devices)
                                   /\ devices[items[i].devId].dev_type_id \notin DOMAIN classes)
    IN [k \in DOMAIN un |-> LogRecord("error", "root", items[un[k]].devId)]

NoSnapshot == [t |-> "none"]

OInit ==
    /\ RT_DEVICE_CLASSES = RT_imported
    /\ RPT_DEVICE_CLASSES = RPT_imported
    /\ log = <<>>
    /\ snapshot = NoSnapshot
    /\ loaded = NoSnapshot
    /\ self_data = <<>>

-----------------------------------------------------------------------------
(* Client: common parts *)

\* a Python dict as a function; dict() and dict.update()
EmptyDict == [k \in {} |-> ""]
dict_update_keep(d, e) ==
    [k \in DOMAIN d \cup DOMAIN e |-> IF k \in DOMAIN d THEN d[k] ELSE e[k]]
dict_update(d, e) ==
    [k \in DOMAIN d \cup DOMAIN e |-> IF k \in DOMAIN e THEN e[k] ELSE d[k]]

\* session.post as the Client sees it: a body, or an exception
PostRaises == { [t |-> "raise", kind |-> k] : k \in {"LoginFailed", "HTTPError"} }
CNoResult == [t |-> "none"]
CReturn(v) == [t |-> "return", val |-> v]
CRaise == [t |-> "raise"]

CIdle ==
    /\ cop = "none"
    /\ cpc = "idle"
    /\ carg = <<>>
    /\ page = 0
    /\ plants = EmptyDict
    /\ todo = <<>>
    /\ data = <<>>
    /\ creqs = <<>>
    /\ cresps = <<>>
    /\ cres = CNoResult

\* a new Session and a Client on it, nothing called yet
Init == SInit /\ CIdle /\ OInit

Spec == Init /\ [][SNext]_vars

-----------------------------------------------------------------------------
(* Client.get_plant_list *)

\* Largest page number requested.
MaxPages == 3
\* pageSize of every plant-list request
PageSize == 100

PlantItem(c, n) == [plantCode |-> c, plantName |-> n]
P1a == PlantItem("P1", "a")
P1b == PlantItem("P1", "b")
P2a == PlantItem("P2", "a")
\* the "list" of one page; haslist FALSE: the body has no "list" key
PageLists == {<<>>, <<P1a>>, <<P1b>>, <<P2a>>, <<P1a, P1b>>, <<P1b, P2a>>}
PageResps ==
    [t : {"ok"}, haslist : {TRUE}, list : PageLists, pageCount : 0..(MaxPages + 1)]
    \cup [t : {"ok"}, haslist : {FALSE}, list : {<<>>}, pageCount : 0..(MaxPages + 1)]

\* an item of the device-list API; it has the fields Device.__str__ reads
DeviceItem(id, name, station, type) ==
    [id |-> id, devName |-> name, stationCode |-> station, devTypeId |-> type,
     softwareVersion |-> "V1"]

\* a Device constructed on the plant of code c: _data, the reference to its
\* plant, and the values of its properties id, name, station_code, dev_type_id
DeviceObj(item, c) ==
    [_data |-> item, _plant |-> c, id |-> item.id, name |-> item.devName,
     station_code |-> item.stationCode, dev_type_id |-> item.devTypeId]

\* Plant.add_device: self._devices[device.name] = device, on a dict that
\* keeps its keys in insertion order (a known name keeps its place)
add_device_append(devs, device) == Append(devs, device)
add_device(devs, device) ==
    IF \E i \in DOMAIN devs : devs[i].name = device.name
    THEN [i \in DOMAIN devs |-> IF devs[i].name = device.name THEN device ELSE devs[i]]
    ELSE Append(devs, device)

\* Plant.__init__ with "devices" in data: Device(dev_data, {self.code: self})
\* for every saved device, which raises when a station code is not self.code
Plant_raises(item) ==
    /\ "devices" \in DOMAIN item
    /\ \E i \in DOMAIN item.devices : item.devices[i].stationCode # item.plantCode
RECURSIVE Plant_devices(_, _)
Plant_devices(items, c) ==
    IF items = <<>> THEN <<>>
    ELSE add_device(Plant_devices(SubSeq(items, 1, Len(items) - 1), c),
                    DeviceObj(items[Len(items)], c))

\* Plant.__init__ (when it does not raise)
Plant(item) ==
    [_data |-> item, code |-> item.plantCode, name |-> item.plantName,
     _devices |-> IF "devices" \in DOMAIN item
                  THEN Plant_devices(item.devices, item.plantCode)
                  ELSE <<>>]

\* Plant.from_list: {plant.code: plant for plant in plants}
RECURSIVE Plant_from_list(_)
Plant_from_list(l) ==
    IF l = <<>> THEN EmptyDict
    ELSE LET n == Len(l)
             pl == Plant(l[n])
         IN dict_update(Plant_from_list(SubSeq(l, 1, n - 1)),
                        [k \in {pl.code} |-> pl])

\* response.get("list", [])
get_list(r) == IF r.haslist THEN r.list ELSE <<>>

get_plant_list_call ==
    /\ cpc = "idle"
    /\ cop' = "get_plant_list"
    /\ cpc' = "loop"
    /\ carg' = <<>>
    /\ page' = 1
    /\ plants' = EmptyDict
    /\ creqs' = <<>>
    /\ cresps' = <<>>
    /\ cres' = CNoResult
    /\ UNCHANGED <<todo, data, svars, ovars>>

\* one iteration of the loop over itertools.count(start=1)
get_plant_list_page_first(r) ==
    /\ cop = "get_plant_list" /\ cpc = "loop"
    /\ page <= MaxPages
    /\ creqs' = Append(creqs, [pageNo |-> page, pageSize |-> PageSize])
    /\ cresps' = Append(cresps, r)
    /\ IF r.t = "raise"
       THEN /\ cres' = r
            /\ cpc' = "done"
            /\ UNCHANGED <<plants, page>>
       ELSE /\ plants' = dict_update(plants, Plant_from_list(get_list(r)))
            /\ IF page >= cresps'[1].pageCount
               THEN /\ cres' = CReturn(plants')
                    /\ cpc' = "done"
                    /\ UNCHANGED page
               ELSE /\ page' = page + 1
                    /\ UNCHANGED <<cres, cpc>>
    /\ UNCHANGED <<cop, carg, todo, data, svars, ovars>>
get_plant_list_page(r) ==
    /\ cop = "get_plant_list" /\ cpc = "loop"
    /\ page <= MaxPages
    /\ creqs' = Append(creqs, [pageNo |-> page, pageSize |-> PageSize])
    /\ cresps' = Append(cresps, r)
    /\ IF r.t = "raise"
       THEN /\ cres' = r
            /\ cpc' = "done"
            /\ UNCHANGED <<plants, page>>
       ELSE /\ plants' = dict_update(plants, Plant_from_list(get_list(r)))
            /\ IF page >= r.pageCount
               THEN /\ cres' = CReturn(plants')
                    /\ cpc' = "done"
                    /\ UNCHANGED page
               ELSE /\ page' = page + 1
                    /\ UNCHANGED <<cres, cpc>>
    /\ UNCHANGED <<cop, carg, todo, data, svars, ovars>>

PlantListNext ==
    \/ get_plant_list_call
    \/ \E r \in PageResps \cup PostRaises : get_plant_list_page(r)

PlantListSpec == Init /\ [][PlantListNext]_vars

-----------------------------------------------------------------------------
(* Client._get_plant_data *)

\* Largest number of plants in the mapping passed to a plant-data request.
MaxPlants == 3
\* Largest batch_size argument.
MaxBatch == 3

PlantCodes == {"P1", "P2", "P3", "P4"}
Range(q) == {q[i] : i \in DOMAIN q}
\* list(plants.values()), by plant code: the codes of a mapping are distinct
PlantSeqs ==
    UNION { {q \in [1..n -> PlantCodes] : Cardinality(Range(q)) = n} : n \in 0..MaxPlants }

Min(a, b) == IF a < b THEN a ELSE b

\* batched(iterable, n): tuples of n items, the last one possibly shorter
RECURSIVE batched_strict(_, _)
batched_strict(q, n) ==
    IF Len(q) < n THEN <<>>
    ELSE <<SubSeq(q, 1, n)>> \o batched_strict(SubSeq(q, n + 1, Len(q)), n)
RECURSIVE batched(_, _)
batched(q, n) ==
    IF q = <<>> THEN <<>>
    ELSE <<SubSeq(q, 1, Min(n, Len(q)))>> \o batched(SubSeq(q, Min(n, Len(q)) + 1, Len(q)), n)

\* ",".join(strings)
RECURSIVE join(_)
join(q) ==
    IF q = <<>> THEN ""
    ELSE IF Len(q) = 1 THEN q[1]
    ELSE LET h == Len(q) \div 2
         IN join(SubSeq(q, 1, h)) \o "," \o join(SubSeq(q, h + 1, Len(q)))

\* the answers to a data request; hasdata FALSE: the body has no "data" key
DataResps ==
    { [t |-> "ok", hasdata |-> TRUE, data |-> <<"x">>],
      [t |-> "ok", hasdata |-> TRUE, data |-> <<"y", "x">>],
      [t |-> "ok", hasdata |-> FALSE, data |-> <<>>] }
\* response.get("data", [])
get_data(r) == IF r.hasdata THEN r.data ELSE <<>>

\* entry: data = [], the for loop starts over batched(unique_plants, batch_size);
\* batched raises when batch_size < 1, the loop body never runs without plants
_get_plant_data_call(ps, bs) ==
    /\ cpc = "idle"
    /\ cop' = "_get_plant_data"
    /\ carg' = [plants |-> ps, batch_size |-> bs]
    /\ data' = <<>>
    /\ creqs' = <<>>
    /\ cresps' = <<>>
    /\ IF bs < 1
       THEN /\ todo' = <<>>
            /\ cres' = CRaise
            /\ cpc' = "done"
       ELSE /\ todo' = batched(ps, bs)
            /\ IF todo' = <<>>
               THEN cres' = CReturn(<<>>) /\ cpc' = "done"
               ELSE cres' = CNoResult /\ cpc' = "loop"
    /\ UNCHANGED <<page, plants, svars, ovars>>

\* one iteration of the for loop: one request, its data appended
_get_plant_data_batch_skip(r) ==
    /\ cop = "_get_plant_data" /\ cpc = "loop"
    /\ creqs' = Append(creqs, [stationCodes |-> join(Head(todo))])
    /\ cresps' = Append(cresps, r)
    /\ data' = IF r.t = "raise" THEN data ELSE data \o get_data(r)
    /\ todo' = Tail(todo)
    /\ IF todo' = <<>>
       THEN cres' = CReturn(data') /\ cpc' = "done"
       ELSE UNCHANGED <<cres, cpc>>
    /\ UNCHANGED <<cop, carg, page, plants, svars, ovars>>
_get_plant_data_batch(r) ==
    /\ cop = "_get_plant_data" /\ cpc = "loop"
    /\ creqs' = Append(creqs, [stationCodes |-> join(Head(todo))])
    /\ cresps' = Append(cresps, r)
    /\ IF r.t = "raise"
       THEN /\ cres' = r
            /\ cpc' = "done"
            /\ UNCHANGED <<data, todo>>
       ELSE /\ data' = data \o get_data(r)
            /\ todo' = Tail(todo)
            /\ IF todo' = <<>>
               THEN cres' = CReturn(data') /\ cpc' = "done"
               ELSE UNCHANGED <<cres, cpc>>
    /\ UNCHANGED <<cop, carg, page, plants, svars, ovars>>

PlantDataNext ==
    \/ \E ps \in PlantSeqs, bs \in 0..MaxBatch : _get_plant_data_call(ps, bs)
    \/ \E r \in DataResps \cup PostRaises : _get_plant_data_batch(r)

PlantDataSpec == Init /\ [][PlantDataNext]_vars

-----------------------------------------------------------------------------
(* Client._get_device_data and its callers *)

\* Largest number of devices of the small device mappings.
MaxDevs == 2
\* batch_size of the device-data queries, and of the history query
DeviceBatch == 100
HistoryBatch == 10

Device(i, t) == [id |-> i, dev_type_id |-> t]
\* inverter, battery, optimizer (no class in either domain), power sensor
\* (a realtime class only)
DevTypes == {1, 39, 46, 47}
\* devices.values() of small mappings: any types, ids in descending order
SmallDevices ==
    UNION { { [i \in 1..n |-> Device(500 - i, ts[i])] : ts \in [1..n -> DevTypes] } :
            n \in 0..MaxDevs }
\* a large mapping: nb batteries and na inverters, alternating while both last
Mix(na, nb) ==
    [i \in 1..(na + nb) |->
        Device(1000 + i,
               IF i <= 2 * Min(na, nb) THEN (IF i % 2 = 1 THEN 39 ELSE 1)
               ELSE IF na > nb THEN 1 ELSE 39)]
LargeDevices == {Mix(150, 50), Mix(10, 101)}

\* the keys of RT_DEVICE_CLASSES and of RPT_DEVICE_CLASSES after import
RT_supported_devices ==
    {-1, 1, 38, 10, 17, 47, 39, 41, 60001, 60003, 60043, 60044, 60092, 60014, 60010}
RPT_supported_devices == {-1, 39, 1, 38, 41}

\* sorted(devices.values(), key=dev_type_id): a stable sort, so the items
\* of the smallest key come first, in their original order, then the rest
RECURSIVE sorted_keys(_, _)
sorted_keys(q, keys) ==
    IF keys = {} THEN <<>>
    ELSE LET k == CHOOSE x \in keys : \A y \in keys : x <= y
         IN SelectSeq(q, LAMBDA d : d.dev_type_id = k) \o sorted_keys(q, keys \ {k})
sorted_by_type(q) == sorted_keys(q, {q[i].dev_type_id : i \in DOMAIN q})

\* itertools.groupby(q, key=dev_type_id): the runs of equal keys
groupby_single(q) ==
    IF q = <<>> THEN <<>> ELSE <<[key |-> q[1].dev_type_id, group |-> q]>>
RECURSIVE groupby(_)
groupby(q) ==
    IF q = <<>> THEN <<>>
    ELSE LET k == q[1].dev_type_id
             n == CHOOSE m \in 1..Len(q) :
                    /\ \A i \in 1..m : q[i].dev_type_id = k
                    /\ m = Len(q) \/ q[m + 1].dev_type_id # k
         IN <<[key |-> k, group |-> SubSeq(q, 1, n)]>> \o groupby(SubSeq(q, n + 1, Len(q)))

\* str(d.id) for d in batch
str_ids(b) == [i \in DOMAIN b |-> ToString(b[i].id)]

\* the two nested for loops: the batches requested, in order
RECURSIVE device_batches_nofilter(_, _, _)
device_batches_nofilter(gs, bs, flt) ==
    IF gs = <<>> THEN <<>>
    ELSE [i \in 1..Len(batched(gs[1].group, bs)) |->
              [dev_type_id |-> gs[1].key, batch |-> batched(gs[1].group, bs)[i]]]
         \o device_batches_nofilter(Tail(gs), bs, flt)
RECURSIVE device_batches(_, _, _)
device_batches(gs, bs, flt) ==
    IF gs = <<>> THEN <<>>
    ELSE (IF gs[1].key \notin flt THEN <<>>
          ELSE [i \in 1..Len(batched(gs[1].group, bs)) |->
                    [dev_type_id |-> gs[1].key, batch |-> batched(gs[1].group, bs)[i]]])
         \o device_batches(Tail(gs), bs, flt)

\* the calls of _get_device_data: (endpoint, batch_size, device_filter) of the
\* public operations, and direct calls with other batch sizes and filters
\* (no filter given: device_filter or [] is empty)
PublicDeviceCalls_rt ==
    { [endpoint |-> e, batch_size |-> DeviceBatch, device_filter |-> RT_supported_devices] :
        e \in {"getDevRealKpi", "getDevKpiDay", "getDevKpiMonth", "getDevKpiYear"} }
    \cup { [endpoint |-> "getDevHistoryKpi", batch_size |-> HistoryBatch,
            device_filter |-> RT_supported_devices] }
PublicDeviceCalls ==
    { [endpoint |-> "getDevRealKpi", batch_size |-> DeviceBatch, device_filter |-> RT_supported_devices],
      [endpoint |-> "getDevHistoryKpi", batch_size |-> HistoryBatch, device_filter |-> RT_supported_devices],
      [endpoint |-> "getDevKpiDay", batch_size |-> DeviceBatch, device_filter |-> RPT_supported_devices],
      [endpoint |-> "getDevKpiMonth", batch_size |-> DeviceBatch, device_filter |-> RPT_supported_devices],
      [endpoint |-> "getDevKpiYear", batch_size |-> DeviceBatch, device_filter |-> RPT_supported_devices] }
DirectDeviceCalls(sizes) ==
    [endpoint : {"direct"}, batch_size : sizes,
     device_filter : {{}, {1}, {39}, {1, 46}}]
DeviceInputs ==
    ((PublicDeviceCalls \cup DirectDeviceCalls({1, DeviceBatch})) \X SmallDevices)
    \cup ((PublicDeviceCalls \cup DirectDeviceCalls({DeviceBatch})) \X LargeDevices)

\* the server's answers: one item per requested device, or none for the
\* small mappings, or a failure of session.post
EchoResp(b) == [t |-> "ok", hasdata |-> TRUE, data |-> [i \in 1..Len(b) |-> [devId |-> b[i].id]]]
NoDataResp == [t |-> "ok", hasdata |-> FALSE, data |-> <<>>]
DeviceResps(devs, b) ==
    {EchoResp(b)} \cup PostRaises \cup (IF Len(devs) <= MaxDevs THEN {NoDataResp} ELSE {})

_get_device_data_call(c, devs) ==
    /\ cpc = "idle"
    /\ cop' = "_get_device_data"
    /\ carg' = [endpoint |-> c.endpoint, devices |-> devs,
                batch_size |-> c.batch_size, device_filter |-> c.device_filter]
    /\ data' = <<>>
    /\ creqs' = <<>>
    /\ cresps' = <<>>
    /\ todo' = device_batches(groupby(sorted_by_type(devs)), c.batch_size, c.device_filter)
    /\ IF todo' = <<>>
       THEN cres' = CReturn(<<>>) /\ cpc' = "done"
       ELSE cres' = CNoResult /\ cpc' = "loop"
    /\ UNCHANGED <<page, plants, svars, ovars>>

\* the mapping id -> Device that Device.from_list builds, from its values
devices_dict(devs) ==
    [k \in {devs[i].id : i \in DOMAIN devs} |->
        devs[CHOOSE i \in DOMAIN devs : devs[i].id = k]]

\* to_timestamp: seconds to the vendor's milliseconds
to_timestamp(time) == time * 1000

\* get_device_history_data: the assertion, the parameters, and the start of
\* _get_device_data with a batch size of 10 and the realtime classes' codes
get_device_history_data_unchecked(devs, begin, end) ==
    /\ cpc = "idle"
    /\ cop' = "get_device_history_data"
    /\ carg' = [endpoint |-> "getDevHistoryKpi", devices |-> devs,
                batch_size |-> HistoryBatch, device_filter |-> DOMAIN RT_DEVICE_CLASSES,
                begin |-> begin, end |-> end]
    /\ data' = <<>>
    /\ creqs' = <<>>
    /\ cresps' = <<>>
    /\ log' = <<>>
    /\ todo' = device_batches(groupby(sorted_by_type(devs)), HistoryBatch,
                              DOMAIN RT_DEVICE_CLASSES)
    /\ IF todo' = <<>>
       THEN /\ cres' = from_list(RT_DEVICE_CLASSES, <<>>, devices_dict(devs))
            /\ cpc' = "done"
       ELSE cres' = CNoResult /\ cpc' = "loop"
    /\ UNCHANGED <<page, plants, svars, RT_DEVICE_CLASSES, RPT_DEVICE_CLASSES,
                   snapshot, loaded, self_data>>
get_device_history_data_call(devs, begin, end) ==
    /\ cpc = "idle"
    /\ cop' = "get_device_history_data"
    /\ carg' = [endpoint |-> "getDevHistoryKpi", devices |-> devs,
                batch_size |-> HistoryBatch, device_filter |-> DOMAIN RT_DEVICE_CLASSES,
                begin |-> begin, end |-> end]
    /\ data' = <<>>
    /\ creqs' = <<>>
    /\ cresps' = <<>>
    /\ log' = <<>>
    /\ IF ~(end > begin)
       THEN /\ todo' = <<>>
            /\ cres' = ORaise("AssertionError", "End time needs to be after begin time")
            /\ cpc' = "done"
       ELSE /\ todo' = device_batches(groupby(sorted_by_type(devs)), HistoryBatch,
                                      DOMAIN RT_DEVICE_CLASSES)
            /\ IF todo' = <<>>
               THEN /\ cres' = from_list(RT_DEVICE_CLASSES, <<>>, devices_dict(devs))
                    /\ cpc' = "done"
               ELSE cres' = CNoResult /\ cpc' = "loop"
    /\ UNCHANGED <<page, plants, svars, RT_DEVICE_CLASSES, RPT_DEVICE_CLASSES,
                   snapshot, loaded, self_data>>

\* one iteration of the inner for loop: one request, its data appended; the
\* history query decodes the list that _get_device_data returns
_get_device_data_batch ==
    /\ cop \in {"_get_device_data", "get_device_history_data"} /\ cpc = "loop"
    /\ \E r \in DeviceResps(carg.devices, Head(todo).batch) :
        /\ creqs' = Append(creqs,
                [endpoint |-> carg.endpoint,
                 devIds |-> join(str_ids(Head(todo).batch)),
                 devTypeId |-> Head(todo).dev_type_id,
                 batch |-> Head(todo).batch]
                @@ (IF cop = "get_device_history_data"
                    THEN [startTime |-> to_timestamp(carg.begin),
                          endTime |-> to_timestamp(carg.end)]
                    ELSE <<>>))
        /\ cresps' = Append(cresps, r)
        /\ IF r.t = "raise"
           THEN /\ cres' = r
                /\ cpc' = "done"
                /\ UNCHANGED <<data, todo, log>>
           ELSE /\ data' = data \o get_data(r)
                /\ todo' = Tail(todo)
                /\ IF todo' = <<>>
                   THEN /\ cpc' = "done"
                        /\ IF cop = "get_device_history_data"
                           THEN /\ cres' = from_list(RT_DEVICE_CLASSES, data',
                                                     devices_dict(carg.devices))
                                /\ log' = from_list_log(RT_DEVICE_CLASSES, data',
                                                        devices_dict(carg.devices))
                           ELSE /\ cres' = CReturn(data')
                                /\ UNCHANGED log
                   ELSE UNCHANGED <<cres, cpc, log>>
    /\ UNCHANGED <<cop, carg, page, plants, svars, RT_DEVICE_CLASSES, RPT_DEVICE_CLASSES,
                   snapshot, loaded, self_data>>

\* Largest time of a history query, in seconds.
MaxTime == 2

DeviceDataNext ==
    \/ \E in \in DeviceInputs : _get_device_data_call(in[1], in[2])
    \/ \E devs \in SmallDevices \cup LargeDevices, begin \in 0..MaxTime, end \in 0..MaxTime :
            get_device_history_data_call(devs, begin, end)
    \/ _get_device_data_batch

DeviceDataSpec == Init /\ [][DeviceDataNext]_vars

-----------------------------------------------------------------------------
(* The Client operations that loop over requests, together *)

ClientNext ==
    \/ PlantListNext
    \/ PlantDataNext
    \/ DeviceDataNext

ClientSpec == Init /\ [][ClientNext]_vars

-----------------------------------------------------------------------------
(* Plants and their devices *)

\* Largest number of items of a device-list or alarm-list response.
MaxList == 2
\* plants per request of get_device_list
DeviceListBatch == 100

\* the devices of the responses: two of plant P1 with the same name, one more
\* of P1, one of P2, and one of a plant that no mapping has
D1 == DeviceItem(1, "inv", "P1", 1)
D2 == DeviceItem(2, "bat", "P1", 39)
D3 == DeviceItem(3, "inv", "P1", 38)
D4 == DeviceItem(4, "inv", "P2", 1)
D5 == DeviceItem(5, "inv", "PX", 1)
DeviceItems == {D1, D2, D3, D4, D5}
DeviceLists == UNION { [1..n -> DeviceItems] : n \in 0..MaxList }
DeviceListResps ==
    { [t |-> "ok", hasdata |-> TRUE, data |-> l] : l \in DeviceLists }
    \cup { [t |-> "ok", hasdata |-> FALSE, data |-> <<>>] } \cup PostRaises

\* the lists given to Plant.from_list: items of the list API, and a saved
\* plant whose device belongs to another plant
SavedP1 == [plantCode |-> "P1", plantName |-> "a", devices |-> <<D2, D1>>]
SavedBad == [plantCode |-> "P1", plantName |-> "a", devices |-> <<D1, D4>>]
PlantLists == {<<>>, <<P1a>>, <<P1a, P2a>>, <<P2a, P1b>>, <<SavedP1, P2a>>, <<SavedBad>>}

\* list(d.values()) of a mapping: the model keeps no order of the keys, the
\* values come in one fixed order
dict_values(d) ==
    LET q == CHOOSE f \in [1..Cardinality(DOMAIN d) -> DOMAIN d] :
                {f[i] : i \in 1..Cardinality(DOMAIN d)} = DOMAIN d
    IN [i \in 1..Cardinality(DOMAIN d) |-> d[q[i]]]

\* Device.__init__(data, plants): it raises when the station code is not a
\* key of plants, else the plant found under the code gets the device
Device_raises(item, ps) == item.stationCode \notin DOMAIN ps
Device_init_any(item, ps) ==
    LET c == CHOOSE k \in DOMAIN ps : TRUE
    IN [ps EXCEPT ![c]._devices = add_device(@, DeviceObj(item, ps[c].code))]
Device_init(item, ps) ==
    [ps EXCEPT ![item.stationCode]._devices =
        add_device(@, DeviceObj(item, ps[item.stationCode].code))]

\* Device.from_list(data, plants): the constructions in order, up to the
\* first that raises; the plants they leave ...
RECURSIVE Device_from_list_plants_atomic(_, _)
Device_from_list_plants_atomic(items, ps) ==
    IF items = <<>> \/ \E i \in DOMAIN items : Device_raises(items[i], ps) THEN ps
    ELSE Device_from_list_plants_atomic(Tail(items), Device_init(items[1], ps))
RECURSIVE Device_from_list_plants(_, _)
Device_from_list_plants(items, ps) ==
    IF items = <<>> \/ Device_raises(items[1], ps) THEN ps
    ELSE Device_from_list_plants(Tail(items), Device_init(items[1], ps))
\* ... and the result, {device.id: device for device in devices}
Device_from_list(items, ps) ==
    IF \E i \in DOMAIN items : Device_raises(items[i], ps)
    THEN ORaise("ValueError",
                items[CHOOSE i \in DOMAIN items :
                        /\ Device_raises(items[i], ps)
                        /\ \A j \in 1..(i - 1) : ~Device_raises(items[j], ps)].stationCode)
    ELSE CReturn([k \in {items[i].id : i \in DOMAIN items} |->
                    LET last == CHOOSE i \in DOMAIN items :
                                    /\ items[i].id = k
                                    /\ \A j \in DOMAIN items : items[j].id = k => j <= i
                    IN DeviceObj(items[last], ps[items[last].stationCode].code)])

\* Plant.from_list(data): the caller's plants are the mapping it returns
Plant_from_list_call(l) ==
    /\ cpc = "idle"
    /\ snapshot = NoSnapshot
    /\ cop' = "Plant.from_list"
    /\ carg' = [items |-> l]
    /\ log' = <<>>
    /\ creqs' = <<>>
    /\ cresps' = <<>>
    /\ IF \E i \in DOMAIN l : Plant_raises(l[i])
       THEN /\ cres' = ORaise("ValueError", "devices")
            /\ UNCHANGED plants
       ELSE /\ plants' = Plant_from_list(l)
            /\ cres' = CReturn(plants')
    /\ UNCHANGED <<cpc, page, todo, data, svars,
                   RT_DEVICE_CLASSES, RPT_DEVICE_CLASSES, snapshot, loaded, self_data>>

\* Device(data, plants) on the caller's plants
Device_call_unchecked(item) ==
    /\ cpc = "idle"
    /\ snapshot = NoSnapshot
    /\ cop' = "Device"
    /\ carg' = [item |-> item, plants |-> plants]
    /\ log' = <<>>
    /\ creqs' = <<>>
    /\ cresps' = <<>>
    /\ IF DOMAIN plants = {}
       THEN /\ cres' = ORaise("ValueError", item.stationCode)
            /\ UNCHANGED plants
       ELSE LET c == IF item.stationCode \in DOMAIN plants THEN item.stationCode
                     ELSE CHOOSE k \in DOMAIN plants : TRUE
            IN /\ plants' = [plants EXCEPT ![c]._devices =
                                add_device(@, DeviceObj(item, plants[c].code))]
               /\ cres' = CReturn(DeviceObj(item, plants[c].code))
    /\ UNCHANGED <<cpc, page, todo, data, svars,
                   RT_DEVICE_CLASSES, RPT_DEVICE_CLASSES, snapshot, loaded, self_data>>
Device_call(item) ==
    /\ cpc = "idle"
    /\ snapshot = NoSnapshot
    /\ cop' = "Device"
    /\ carg' = [item |-> item, plants |-> plants]
    /\ log' = <<>>
    /\ creqs' = <<>>
    /\ cresps' = <<>>
    /\ IF Device_raises(item, plants)
       THEN /\ cres' = ORaise("ValueError", item.stationCode)
            /\ UNCHANGED plants
       ELSE /\ plants' = Device_init(item, plants)
            /\ cres' = CReturn(DeviceObj(item, plants[item.stationCode].code))
    /\ UNCHANGED <<cpc, page, todo, data, svars,
                   RT_DEVICE_CLASSES, RPT_DEVICE_CLASSES, snapshot, loaded, self_data>>

\* Client.get_device_list(plants) on the caller's plants: with at most 100
\* plants one request (none without plants), whose devices are constructed
get_device_list(r) ==
    /\ cpc = "idle"
    /\ snapshot = NoSnapshot
    /\ Cardinality(DOMAIN plants) <= DeviceListBatch
    /\ cop' = "get_device_list"
    /\ carg' = [plants |-> plants]
    /\ log' = <<>>
    /\ IF DOMAIN plants = {}
       THEN /\ creqs' = <<>>
            /\ cresps' = <<>>
            /\ cres' = CReturn(EmptyDict)
            /\ UNCHANGED plants
       ELSE /\ creqs' = <<[endpoint |-> "getDevList", stationCodes |-> DOMAIN plants]>>
            /\ cresps' = <<r>>
            /\ IF r.t = "raise"
               THEN /\ cres' = r
                    /\ UNCHANGED plants
               ELSE /\ plants' = Device_from_list_plants(get_data(r), plants)
                    /\ cres' = Device_from_list(get_data(r), plants)
    /\ UNCHANGED <<cpc, page, todo, data, svars,
                   RT_DEVICE_CLASSES, RPT_DEVICE_CLASSES, snapshot, loaded, self_data>>

\* Plant.data: the devices' data are put under "devices" in _data, which is
\* returned
Plant_data_raw(p) == p._data
Plant_data(p) ==
    ("devices" :> [i \in DOMAIN p._devices |-> p._devices[i]._data]) @@ p._data

\* saving: [plant.data for plant in plants.values()] written as JSON
save_plants ==
    /\ cpc = "idle"
    /\ snapshot = NoSnapshot
    /\ cop' = "save"
    /\ carg' = [plants |-> plants]
    /\ log' = <<>>
    /\ creqs' = <<>>
    /\ cresps' = <<>>
    /\ plants' = [c \in DOMAIN plants |-> [plants[c] EXCEPT !._data = Plant_data(plants[c])]]
    /\ snapshot' = [t |-> "saved", file |-> [i \in DOMAIN dict_values(plants) |->
                                                Plant_data(dict_values(plants)[i])]]
    /\ cres' = CReturn(snapshot'.file)
    /\ UNCHANGED <<cpc, page, todo, data, svars,
                   RT_DEVICE_CLASSES, RPT_DEVICE_CLASSES, loaded, self_data>>

\* reloading: Plant.from_list on the list read back from the file
load_plants ==
    /\ cpc = "idle"
    /\ snapshot.t = "saved"
    /\ cop' = "load"
    /\ carg' = [items |-> snapshot.file]
    /\ log' = <<>>
    /\ creqs' = <<>>
    /\ cresps' = <<>>
    /\ IF \E i \in DOMAIN snapshot.file : Plant_raises(snapshot.file[i])
       THEN /\ cres' = ORaise("ValueError", "devices")
            /\ UNCHANGED loaded
       ELSE /\ loaded' = [t |-> "loaded", file |-> snapshot.file,
                          plants |-> Plant_from_list(snapshot.file)]
            /\ cres' = CReturn(loaded'.plants)
    /\ UNCHANGED <<cpc, page, plants, todo, data, svars,
                   RT_DEVICE_CLASSES, RPT_DEVICE_CLASSES, snapshot, self_data>>

\* the alarms of the responses: of a device of P1, of a name no device has,
\* of P2, and of a plant that no mapping has
AlarmItem(station, name) == [stationCode |-> station, devName |-> name]
AlarmItems ==
    {AlarmItem("P1", "inv"), AlarmItem("P1", "none"), AlarmItem("P2", "inv"),
     AlarmItem("PX", "inv")}
AlarmLists == UNION { [1..n -> AlarmItems] : n \in 0..MaxList }

NoDevice == [t |-> "None"]

\* AlarmData.__init__(data, plants): it raises when the station code is not
\* a key of plants (the message formats self, whose __str__ reads the plant
\* that is not set yet: the exception is an AttributeError) ...
AlarmData_raises(item, ps) == item.stationCode \notin DOMAIN ps
\* ... else the plant is the one under the code and the device the first of
\* the plant's devices with the alarm's device name, None without one
AlarmData_nodevice(item, ps) ==
    [_data |-> item, _plant |-> ps[item.stationCode].code, _device |-> NoDevice]
AlarmData(item, ps) ==
    LET devs == ps[item.stationCode]._devices
        m == {i \in DOMAIN devs : devs[i].name = item.devName}
    IN [_data |-> item, _plant |-> ps[item.stationCode].code,
        _device |-> IF m = {} THEN NoDevice
                    ELSE devs[CHOOSE i \in m : \A j \in m : i <= j]]

\* the alarms constructed before the first that raises (all without one)
AlarmsBuilt(items, ps) ==
    {i \in DOMAIN items : \A j \in 1..i : ~AlarmData_raises(items[j], ps)}

\* AlarmData.from_list(data, plants): the result ...
AlarmData_from_list(items, ps) ==
    IF AlarmsBuilt(items, ps) # DOMAIN items
    THEN ORaise("AttributeError", items[Cardinality(AlarmsBuilt(items, ps)) + 1].stationCode)
    ELSE CReturn([i \in DOMAIN items |-> AlarmData(items[i], ps)])
\* ... and the warnings of the module's logger, one per alarm without device
AlarmData_from_list_log(items, ps) ==
    LET un == SelectSeq([i \in DOMAIN items |-> i],
                        LAMBDA i : /\ i \in AlarmsBuilt(items, ps)
                                   /\ AlarmData(items[i], ps)._device = NoDevice)
    IN [k \in DOMAIN un |-> LogRecord("warning", "pyhfs.api.alarm_data", items[un[k]].devName)]

AlarmData_from_list_call(items) ==
    /\ cpc = "idle"
    /\ snapshot = NoSnapshot
    /\ cop' = "AlarmData.from_list"
    /\ carg' = [items |-> items, plants |-> plants]
    /\ creqs' = <<>>
    /\ cresps' = <<>>
    /\ cres' = AlarmData_from_list(items, plants)
    /\ log' = AlarmData_from_list_log(items, plants)
    /\ UNCHANGED <<cpc, page, plants, todo, data, svars,
                   RT_DEVICE_CLASSES, RPT_DEVICE_CLASSES, snapshot, loaded, self_data>>

\* One behaviour obtains plants, fills and reads them, then saves them once
\* and reloads the file: the operations on the plants come before the save.
ObjectNext ==
    \/ \E l \in PlantLists : Plant_from_list_call(l)
    \/ \E item \in DeviceItems : Device_call(item)
    \/ \E r \in DeviceListResps : get_device_list(r)
    \/ save_plants
    \/ load_plants
    \/ \E items \in AlarmLists : AlarmData_from_list_call(items)

ObjectSpec == Init /\ [][ObjectNext]_vars

\* plants = client.get_plant_list(): the caller keeps the mapping returned
\* and goes on to its next call
plants_assign ==
    /\ cop = "get_plant_list" /\ cpc = "done" /\ cres.t = "return"
    /\ plants' = cres.val
    /\ cpc' = "idle"
    /\ creqs' = <<>>
    /\ cresps' = <<>>
    /\ UNCHANGED <<cop, carg, page, todo, data, cres, svars, ovars>>

\* the calls that build plants and put devices into them, in any order
PlantDeviceNext ==
    \/ get_plant_list_call
    \/ \E r \in PageResps \cup PostRaises : get_plant_list_page(r)
    \/ plants_assign
    \/ \E l \in PlantLists : Plant_from_list_call(l)
    \/ \E r \in DeviceListResps : get_device_list(r)

PlantDeviceSpec == Init /\ [][PlantDeviceNext]_vars

-----------------------------------------------------------------------------
(* Field accessors (util.py) *)

\* Python values: an int, a string, None, and what the conversions give
PyInt(n) == [ty |-> "int", n |-> n, s |-> ""]
PyStr(str) == [ty |-> "str", n |-> 0, s |-> str]
PyNone == [ty |-> "None", n |-> 0, s |-> ""]
PyFloat(n) == [ty |-> "float", n |-> n, s |-> ""]
PyDatetime(n) == [ty |-> "datetime", n |-> n, s |-> ""]

\* the raw values of a field, and the defaults declared in the record types
RawValues == {PyInt(0), PyInt(2500), PyStr("N/A"), PyNone}
Defaults == {PyInt(0), PyInt(-1), PyNone}
Fields == {"f", "g"}
\* conv: none, float, or from_timestamp
Convs == {"None", "float", "from_timestamp"}

\* a dict with keys among Fields
FieldMaps == UNION { [ks -> RawValues] : ks \in SUBSET Fields }
\* the backing maps: the fields, and "dataItemMap" or not
BackingMaps ==
    { [top |-> m, hasmap |-> FALSE, dataItemMap |-> <<>>] : m \in {<<>>, [k \in {"f"} |-> PyInt(0)]} }
    \cup { [top |-> t, hasmap |-> TRUE, dataItemMap |-> m] :
            t \in {<<>>, [k \in {"f"} |-> PyInt(0)], [k \in {"g"} |-> PyStr("N/A")]},
            m \in FieldMaps }
    \cup { [top |-> m, hasmap |-> TRUE, dataItemMap |-> <<>>] : m \in FieldMaps }

\* float(value)
float(v) ==
    CASE v.ty = "int" -> CReturn(PyFloat(v.n))
      [] v.ty = "float" -> CReturn(v)
      [] v.ty = "str" -> ORaise("ValueError", "float")
      [] OTHER -> ORaise("TypeError", "float")
\* from_timestamp(timestamp): None for "N/A", else the datetime of
\* timestamp // 1000 (a value that has no // raises)
from_timestamp(v) ==
    CASE v.ty = "str" /\ v.s = "N/A" -> CReturn(PyNone)
      [] v.ty = "int" -> CReturn(PyDatetime(v.n \div 1000))
      [] OTHER -> ORaise("TypeError", "from_timestamp")
\* if conv is not None: value = conv(value)
apply_conv(conv, v) ==
    CASE conv = "float" -> float(v)
      [] conv = "from_timestamp" -> from_timestamp(v)
      [] OTHER -> CReturn(v)

\* the getter of data_prop(field, conv=conv)
data_prop(field, conv, d) ==
    IF field \notin DOMAIN d.top THEN ORaise("KeyError", field)
    ELSE apply_conv(conv, d.top[field])
\* the getter of data_prop_opt(field, default, conv=conv)
data_prop_opt(field, default, conv, d) ==
    apply_conv(conv, IF field \in DOMAIN d.top THEN d.top[field] ELSE default)
\* the getter of data_item_prop(field, conv=conv)
data_item_prop(field, conv, d) ==
    IF ~d.hasmap THEN ORaise("KeyError", "dataItemMap")
    ELSE IF field \notin DOMAIN d.dataItemMap THEN ORaise("KeyError", field)
    ELSE apply_conv(conv, d.dataItemMap[field])
\* the getter of data_item_prop_opt(field, default, conv=conv)
data_item_prop_opt(field, default, conv, d) ==
    IF ~d.hasmap THEN ORaise("KeyError", "dataItemMap")
    ELSE apply_conv(conv, IF field \in DOMAIN d.dataItemMap
                          THEN d.dataItemMap[field] ELSE default)

\* self._data = data, in the constructor of a record
record_init(d) ==
    /\ cpc = "idle"
    /\ cop' = "__init__"
    /\ carg' = [data |-> d]
    /\ self_data' = d
    /\ cres' = CNoResult
    /\ UNCHANGED <<cpc, page, plants, todo, data, creqs, cresps, svars,
                   RT_DEVICE_CLASSES, RPT_DEVICE_CLASSES, log, snapshot, loaded>>

\* reading a property built by data_prop or data_item_prop
read_prop(builder, field, conv) ==
    /\ cpc = "idle"
    /\ cop \in {"__init__", "getter"}
    /\ cop' = "getter"
    /\ carg' = [builder |-> builder, field |-> field, hasdefault |-> FALSE,
                default |-> PyNone, conv |-> conv, _data |-> self_data]
    /\ cres' = IF builder = "data_prop" THEN data_prop(field, conv, self_data)
               ELSE data_item_prop(field, conv, self_data)
    /\ UNCHANGED <<cpc, page, plants, todo, data, creqs, cresps, svars, ovars>>

\* reading a property built by data_prop_opt or data_item_prop_opt
read_prop_opt(builder, field, default, conv) ==
    /\ cpc = "idle"
    /\ cop \in {"__init__", "getter"}
    /\ cop' = "getter"
    /\ carg' = [builder |-> builder, field |-> field, hasdefault |-> TRUE,
                default |-> default, conv |-> conv, _data |-> self_data]
    /\ cres' = IF builder = "data_prop_opt"
               THEN data_prop_opt(field, default, conv, self_data)
               ELSE data_item_prop_opt(field, default, conv, self_data)
    /\ UNCHANGED <<cpc, page, plants, todo, data, creqs, cresps, svars, ovars>>

AccessorNext ==
    \/ \E d \in BackingMaps : record_init(d)
    \/ \E b \in {"data_prop", "data_item_prop"}, f \in Fields, c \in Convs : read_prop(b, f, c)
    \/ \E b \in {"data_prop_opt", "data_item_prop_opt"}, f \in Fields, df \in Defaults, c \in Convs :
            read_prop_opt(b, f, df, c)

AccessorSpec == Init /\ [][AccessorNext]_vars

-----------------------------------------------------------------------------
(* The registries: registration and decoding *)

\* Largest number of items of a list given to from_list.
MaxItems == 2

\* codes given to the registration decorators: one that both registries
\* have after import, and two that neither has (optimizer, dongle)
RegCodes == {1, 46, 62}
RegClasses == {"ClsA", "ClsB"}

\* a device mapping id -> Device: an inverter, a power sensor (a realtime
\* class only), an optimizer and a dongle (no class after import)
DecodeDevices ==
    (501 :> Device(501, 1)) @@ (502 :> Device(502, 47))
    @@ (503 :> Device(503, 46)) @@ (504 :> Device(504, 62))
\* the device ids of response items: 999 is not a key of the mapping
ItemIds == {501, 502, 503, 999}
ItemLists == UNION { [1..n -> {[devId |-> k] : k \in ItemIds}] : n \in 0..MaxItems }

\* @rt_register(dev_type_id) applied to a class
rt_register_overwrite(dev_type_id, cls) ==
    /\ cpc = "idle"
    /\ cop' = "rt_register"
    /\ carg' = [dev_type_id |-> dev_type_id, cls |-> cls]
    /\ log' = <<>>
    /\ cres' = CReturn(cls)
    /\ RT_DEVICE_CLASSES' = (dev_type_id :> cls) @@ RT_DEVICE_CLASSES
    /\ UNCHANGED <<cpc, page, plants, todo, data, creqs, cresps, svars,
                   RPT_DEVICE_CLASSES, snapshot, loaded, self_data>>
rt_register(dev_type_id, cls) ==
    /\ cpc = "idle"
    /\ cop' = "rt_register"
    /\ carg' = [dev_type_id |-> dev_type_id, cls |-> cls]
    /\ log' = <<>>
    /\ IF dev_type_id \in DOMAIN RT_DEVICE_CLASSES
       THEN /\ cres' = ORaise("ValueError", dev_type_id)
            /\ UNCHANGED RT_DEVICE_CLASSES
       ELSE /\ cres' = CReturn(cls)
            /\ RT_DEVICE_CLASSES' = (dev_type_id :> cls) @@ RT_DEVICE_CLASSES
    /\ UNCHANGED <<cpc, page, plants, todo, data, creqs, cresps, svars,
                   RPT_DEVICE_CLASSES, snapshot, loaded, self_data>>

\* @rpt_register(dev_type_id) applied to a class
rpt_register(dev_type_id, cls) ==
    /\ cpc = "idle"
    /\ cop' = "rpt_register"
    /\ carg' = [dev_type_id |-> dev_type_id, cls |-> cls]
    /\ log' = <<>>
    /\ IF dev_type_id \in DOMAIN RPT_DEVICE_CLASSES
       THEN /\ cres' = ORaise("ValueError", dev_type_id)
            /\ UNCHANGED RPT_DEVICE_CLASSES
       ELSE /\ cres' = CReturn(cls)
            /\ RPT_DEVICE_CLASSES' = (dev_type_id :> cls) @@ RPT_DEVICE_CLASSES
    /\ UNCHANGED <<cpc, page, plants, todo, data, creqs, cresps, svars,
                   RT_DEVICE_CLASSES, snapshot, loaded, self_data>>

\* DeviceRTData.from_list(data, devices)
DeviceRTData_from_list(items, devices) ==
    /\ cpc = "idle"
    /\ cop' = "DeviceRTData.from_list"
    /\ carg' = [items |-> items, devices |-> devices]
    /\ cres' = from_list(RT_DEVICE_CLASSES, items, devices)
    /\ log' = from_list_log(RT_DEVICE_CLASSES, items, devices)
    /\ UNCHANGED <<cpc, page, plants, todo, data, creqs, cresps, svars,
                   RT_DEVICE_CLASSES, RPT_DEVICE_CLASSES, snapshot, loaded, self_data>>

\* DeviceRptData.from_list(data, devices)
DeviceRptData_from_list(items, devices) ==
    /\ cpc = "idle"
    /\ cop' = "DeviceRptData.from_list"
    /\ carg' = [items |-> items, devices |-> devices]
    /\ cres' = from_list(RPT_DEVICE_CLASSES, items, devices)
    /\ log' = from_list_log(RPT_DEVICE_CLASSES, items, devices)
    /\ UNCHANGED <<cpc, page, plants, todo, data, creqs, cresps, svars,
                   RT_DEVICE_CLASSES, RPT_DEVICE_CLASSES, snapshot, loaded, self_data>>

RegistryNext ==
    \/ \E c \in RegCodes, cls \in RegClasses : rt_register(c, cls)
    \/ \E c \in RegCodes, cls \in RegClasses : rpt_register(c, cls)
    \/ \E items \in ItemLists : DeviceRTData_from_list(items, DecodeDevices)
    \/ \E items \in ItemLists : DeviceRptData_from_list(items, DecodeDevices)

RegistrySpec == Init /\ [][RegistryNext]_vars

-----------------------------------------------------------------------------
(* Properties of the Session *)

Is305(r) == r.t = "fail" /\ r.code = 305
Last(h) == h[Len(h)]
Logins(h) == Cardinality({i \in DOMAIN h : h[i].ep = "login"})
Requests(h) == Cardinality({i \in DOMAIN h : h[i].ep # "login"})
PublicKinds == {"Exception", "LoginFailed", "FrequencyLimit", "Permission"}
MappedCodes == {401, 407, 20001, 20002, 20003}

\* C1: when the first request of a post() is answered with 305 and the
\* request sent after the re-login succeeds, post() has called login() exactly
\* once, has sent the request exactly once more (same endpoint) and returns
\* the body of the retried response.
C1_RetryOnceAfter305 ==
    (op = "post" /\ Len(hist) >= 3 /\ Is305(hist[1].resp) /\ hist[3].resp.t = "ok")
    => /\ pc = "idle"
       /\ Len(hist) = 3
       /\ hist[1].ep = ep /\ hist[2].ep = "login" /\ hist[3].ep = ep
       /\ Logins(hist) = 1 /\ Requests(hist) = 2
       /\ result = Return(hist[3].resp.body)

C1_Witness ==
    /\ op = "post" /\ pc = "idle" /\ Len(hist) = 3
    /\ Is305(hist[1].resp) /\ hist[2].ep = "login" /\ hist[3].resp.t = "ok"
    /\ result = Return("b2")

\* C2: one post() call sends the request at most twice and calls login() at
\* most once, whatever the server answers (a second 305 propagates).
C2_AtMostOneRetry ==
    op = "post" => Logins(hist) <= 1 /\ Requests(hist) <= 2

\* C3: a failure response whose code is in the fail-code table makes post()
\* raise the kind of the table; a code outside the table makes it raise the
\* generic kind carrying the response's code and description.
PublicKindOf(c) ==
    CASE c \in {20001, 20002, 20003} -> "LoginFailed"
      [] c = 407 -> "FrequencyLimit"
      [] c = 401 -> "Permission"
      [] OTHER -> "Exception"
C4_NoInternalEscapes ==
    result.t = "raise"
    => /\ result.kind \notin InternalKinds
       /\ (Len(hist) > 0 /\ Last(hist).resp.t = "fail") => result.kind \in PublicKinds

C4_Witness ==
    /\ op = "post" /\ pc = "idle" /\ Len(hist) = 2
    /\ Is305(hist[1].resp) /\ Is305(hist[2].resp)
    /\ result.t = "raise" /\ result.kind = "LoginFailed"

\* C5: login(), and the scope entry that calls it, raise LoginFailed when the
\* authentication call is answered with 305 and when its body is not JSON.
C5_LoginFailed ==
    (op \in {"login", "enter"} /\ Len(hist) = 1
        /\ (Is305(hist[1].resp) \/ hist[1].resp = BadJson))
    => result = Raise("LoginFailed", 0, "")

C5_Witness ==
    /\ op = "enter" /\ hist = <<SentLogin(BadJson)>>
    /\ result.t = "raise" /\ result.kind = "LoginFailed"

\* C6: logout() sends exactly one request, to the logout endpoint, never
\* logs in, and returns normally when the answer is 305.
C6_LogoutSwallows305 ==
    op = "logout"
    => /\ Len(hist) = 1
       /\ hist[1].ep = "logout"
       /\ Is305(hist[1].resp) => result = Return("")

C6_Witness ==
    /\ op = "logout" /\ Len(hist) = 1 /\ Is305(hist[1].resp)
    /\ result = Return("")

-----------------------------------------------------------------------------
(* Properties of get_plant_list *)

\* the items of all the pages received, in the order received
RECURSIVE AllItems(_)
AllItems(rs) ==
    IF rs = <<>> THEN <<>>
    ELSE AllItems(SubSeq(rs, 1, Len(rs) - 1)) \o get_list(rs[Len(rs)])
LatestItem(items, c) ==
    LET last == CHOOSE i \in DOMAIN items :
                    /\ items[i].plantCode = c
                    /\ \A j \in DOMAIN items : items[j].plantCode = c => j <= i
    IN items[last]
ConstantPageCount(P) ==
    /\ cresps # <<>>
    /\ \A i \in DOMAIN cresps : cresps[i].t = "ok" /\ cresps[i].pageCount = P

\* C7: with a server that reports the constant page count P >= 1,
\* get_plant_list requests the pages 1..P in ascending order with page size
\* 100, P requests in all, and returns the mapping whose keys are the plant
\* codes of all the pages, each code with the plant of the latest page (and
\* latest item) that has it.
C7_PlantListPages ==
    \A P \in 1..(MaxPages + 1) :
        (cop = "get_plant_list" /\ ConstantPageCount(P))
        => /\ Len(creqs) <= P
           /\ \A i \in DOMAIN creqs : creqs[i] = [pageNo |-> i, pageSize |-> 100]
           /\ (cpc = "done") = (Len(creqs) = P)
           /\ cpc = "done" =>
                LET items == AllItems(cresps) IN
                /\ cres.t = "return"
                /\ DOMAIN cres.val = {items[i].plantCode : i \in DOMAIN items}
                /\ \A c \in DOMAIN cres.val :
                        /\ cres.val[c].code = c
                        /\ cres.val[c]._data = LatestItem(items, c)

C7_Witness ==
    /\ cop = "get_plant_list" /\ cpc = "done" /\ ConstantPageCount(3)
    /\ Len(creqs) = 3
    /\ get_list(cresps[1]) = <<P1a>>
    /\ get_list(cresps[2]) = <<P1b, P2a>>
    /\ get_list(cresps[3]) = <<>>
    /\ DOMAIN cres.val = {"P1", "P2"}
    /\ cres.val["P1"].name = "b"

-----------------------------------------------------------------------------
(* Properties of the batched plant-data requests *)

Ceil(n, b) == (n + b - 1) \div b
\* the i-th consecutive slice of q with slices of b items
Slice(q, b, i) == SubSeq(q, (i - 1) * b + 1, Min(i * b, Len(q)))
RECURSIVE AllData(_)
AllData(rs) ==
    IF rs = <<>> THEN <<>>
    ELSE AllData(SubSeq(rs, 1, Len(rs) - 1)) \o get_data(rs[Len(rs)])

\* C8: for N plants and batch size B >= 1 a batched plant-data request
\* sends ceil(N/B) requests (none for N = 0); request i carries the
\* comma-joined codes of the i-th consecutive slice of at most B plants, so
\* every plant code is in exactly one request; the result is the
\* concatenation of the responses' data in request order.
C8_PlantBatches ==
    (cop = "_get_plant_data" /\ carg.batch_size >= 1)
    => LET ps == carg.plants
           B == carg.batch_size
           N == Len(ps)
       IN /\ Len(creqs) <= Ceil(N, B)
          /\ \A i \in DOMAIN creqs :
                /\ Len(Slice(ps, B, i)) \in 1..B
                /\ creqs[i].stationCodes = join(Slice(ps, B, i))
          /\ \A k \in 1..N :
                Cardinality({i \in 1..Ceil(N, B) : ps[k] \in Range(Slice(ps, B, i))}) = 1
          /\ (cpc = "done" /\ cres.t = "return")
                => /\ Len(creqs) = Ceil(N, B)
                   /\ cres.val = AllData(cresps)
          /\ (cpc = "done" /\ cres.t = "raise")
                => cresps[Len(cresps)].t = "raise"

C8_Witness ==
    /\ cop = "_get_plant_data" /\ cpc = "done" /\ cres.t = "return"
    /\ carg = [plants |-> <<"P2", "P1", "P3">>, batch_size |-> 2]
    /\ creqs = <<[stationCodes |-> "P2,P1"], [stationCodes |-> "P3"]>>
    /\ cres.val = <<"y", "x", "x">>

-----------------------------------------------------------------------------
(* Properties of the batched device-data requests *)

DevicesOfType(devs, t) == {i \in DOMAIN devs : devs[i].dev_type_id = t}
RequestsOfType(rs, t) == {i \in DOMAIN rs : rs[i].devTypeId = t}
Finished == cpc = "done" /\ cres.t = "return"

\* C9: every request of a batched device-data query carries one device-type
\* code and ids of devices of that type only, at most 100 of them and at most
\* 10 for the history query; a finished query has put every device whose type
\* is in the filter in exactly one request.
C9_OneTypePerRequest ==
    cop = "_get_device_data"
    => /\ \A i \in DOMAIN creqs :
            LET rq == creqs[i] IN
            /\ \A j \in DOMAIN rq.batch :
                    /\ rq.batch[j] \in Range(carg.devices)
                    /\ rq.batch[j].dev_type_id = rq.devTypeId
            /\ rq.devIds = join([j \in DOMAIN rq.batch |-> ToString(rq.batch[j].id)])
            /\ Len(rq.batch) \in 1..100
            /\ rq.endpoint = "getDevHistoryKpi" => Len(rq.batch) <= 10
       /\ Finished =>
            \A d \in Range(carg.devices) :
                d.dev_type_id \in carg.device_filter
                => Cardinality({<<i, j>> \in (DOMAIN creqs) \X (1..100) :
                        j <= Len(creqs[i].batch) /\ creqs[i].batch[j] = d}) = 1

C9_Witness ==
    /\ cop = "_get_device_data" /\ Finished
    /\ carg.endpoint = "getDevHistoryKpi"
    /\ carg.devices = Mix(150, 50)
    /\ Len(creqs) = 20
    /\ creqs[15].devTypeId = 1 /\ creqs[16].devTypeId = 39
    /\ creqs[20].devIds = "1081,1083,1085,1087,1089,1091,1093,1095,1097,1099"

\* C10: a batched device-data query sends no request for a type code
\* outside the device filter (none at all without a filter) and, for a type t
\* of the filter with n_t devices, exactly ceil(n_t / batch size) requests;
\* with 150 devices of type 1, 50 of type 39 and the filter {1} it sends two
\* requests, of 100 and of 50 ids, for type 1 and none for type 39.
C10_FilteredBatches ==
    cop = "_get_device_data"
    => /\ \A i \in DOMAIN creqs : creqs[i].devTypeId \in carg.device_filter
       /\ \A t \in DevTypes \cup carg.device_filter :
            LET sent == Cardinality(RequestsOfType(creqs, t))
                want == IF t \in carg.device_filter
                        THEN Ceil(Cardinality(DevicesOfType(carg.devices, t)), carg.batch_size)
                        ELSE 0
            IN /\ sent <= want
               /\ Finished => sent = want
       /\ (Finished /\ carg.devices = Mix(150, 50) /\ carg.device_filter = {1}
            /\ carg.batch_size = 100)
          => /\ Len(creqs) = 2
             /\ creqs[1].devTypeId = 1 /\ Len(creqs[1].batch) = 100
             /\ creqs[2].devTypeId = 1 /\ Len(creqs[2].batch) = 50

C10_Witness ==
    /\ cop = "_get_device_data" /\ Finished
    /\ carg.devices = Mix(150, 50) /\ carg.device_filter = {1}
    /\ carg.batch_size = 100
    /\ Len(creqs) = 2
    /\ Len(cres.val) = 150

\* C11: get_device_history_data called with end <= begin fails at once with
\* the precondition error and sends no request, whatever the devices.
C11_HistoryPrecondition ==
    (cop = "get_device_history_data" /\ carg.end <= carg.begin)
    => /\ cpc = "done"
       /\ cres.t = "raise" /\ cres.kind = "AssertionError"
       /\ creqs = <<>> /\ cresps = <<>>

C11_Witness ==
    /\ cop = "get_device_history_data"
    /\ carg.devices = Mix(150, 50) /\ carg.end = carg.begin
    /\ cres.t = "raise" /\ creqs = <<>>

-----------------------------------------------------------------------------
(* Properties of the registries and of the decoding *)

\* the registry d with the class cls added under the code c
Registered(d, c, cls) == [k \in DOMAIN d \cup {c} |-> IF k = c THEN cls ELSE d[k]]

\* C12: registering a class under a code the registry of that domain already
\* has fails and leaves the registry as it was (the first class stays); a
\* new code is added with its class; a registration in one domain never
\* changes the registry of the other.
C12_DuplicateRegistration ==
    [][ /\ cop' = "rt_register" =>
            /\ RPT_DEVICE_CLASSES' = RPT_DEVICE_CLASSES
            /\ IF carg'.dev_type_id \in DOMAIN RT_DEVICE_CLASSES
               THEN cres'.t = "raise" /\ RT_DEVICE_CLASSES' = RT_DEVICE_CLASSES
               ELSE /\ cres'.t = "return"
                    /\ RT_DEVICE_CLASSES' =
                        Registered(RT_DEVICE_CLASSES, carg'.dev_type_id, carg'.cls)
        /\ cop' = "rpt_register" =>
            /\ RT_DEVICE_CLASSES' = RT_DEVICE_CLASSES
            /\ IF carg'.dev_type_id \in DOMAIN RPT_DEVICE_CLASSES
               THEN cres'.t = "raise" /\ RPT_DEVICE_CLASSES' = RPT_DEVICE_CLASSES
               ELSE /\ cres'.t = "return"
                    /\ RPT_DEVICE_CLASSES' =
                        Registered(RPT_DEVICE_CLASSES, carg'.dev_type_id, carg'.cls)
      ]_vars

C12_Witness ==
    /\ cop = "rt_register" /\ cres.t = "raise"
    /\ carg = [dev_type_id |-> 46, cls |-> "ClsB"]
    /\ RT_DEVICE_CLASSES[46] = "ClsA"
    /\ 46 \notin DOMAIN RPT_DEVICE_CLASSES

FromListOps == {"DeviceRTData.from_list", "DeviceRptData.from_list"}
\* the registry of the domain of the from_list called last
DomainClasses ==
    IF cop = "DeviceRTData.from_list" THEN RT_DEVICE_CLASSES ELSE RPT_DEVICE_CLASSES
\* the default class of that domain, the one registered under -1
DefaultClass == IF cop = "DeviceRTData.from_list" THEN "DeviceRTData" ELSE "DeviceRptData"
KnownItem(it) == it.devId \in DOMAIN carg.devices
AllKnown == \A i \in DOMAIN carg.items : KnownItem(carg.items[i])
NoClass(it) == carg.devices[it.devId].dev_type_id \notin DOMAIN DomainClasses

\* the decoding of a list of items of known devices: one record per item,
\* in order, of the class registered for the device's type or of the default
\* class, its device the device with the item's id; one log record of the
\* given level per item without a class, and no exception
DecodesKnownItems(level) ==
    (cop \in FromListOps /\ AllKnown)
    => /\ cres.t = "return"
       /\ Len(cres.val) = Len(carg.items)
       /\ \A i \in DOMAIN carg.items :
            LET it == carg.items[i]
                rec == cres.val[i]
            IN /\ rec._data = it
               /\ rec._device = carg.devices[it.devId]
               /\ rec._device.id = it.devId
               /\ rec.cls = IF NoClass(it) THEN DefaultClass
                            ELSE DomainClasses[rec._device.dev_type_id]
       /\ Len(log) = Cardinality({i \in DOMAIN carg.items : NoClass(carg.items[i])})
       /\ \A k \in DOMAIN log : log[k].level = level

C14_UnknownDeviceFatal ==
    (cop \in FromListOps /\ ~AllKnown)
    => /\ cres.t = "raise" /\ cres.kind = "ValueError"
       /\ \E i \in DOMAIN carg.items :
            /\ ~KnownItem(carg.items[i]) /\ cres.about = carg.items[i].devId
            /\ \A j \in 1..(i - 1) : KnownItem(carg.items[j])
       /\ "val" \notin DOMAIN cres

C14_Witness ==
    /\ cop = "DeviceRTData.from_list"
    /\ carg.items = <<[devId |-> 501], [devId |-> 999]>>
    /\ cres.t = "raise" /\ cres.kind = "ValueError"

-----------------------------------------------------------------------------
(* Properties of the plants, their devices, the snapshot and the alarms *)

\* the device items of the response of the get_device_list called last
ListItems == IF cresps = <<>> \/ cresps[1].t = "raise" THEN <<>> ELSE get_data(cresps[1])
\* the data of the devices of a plant, in the order of its collection
DevData(p) == [i \in DOMAIN p._devices |-> p._devices[i]._data]
ItemsOf(items, c) == SelectSeq(items, LAMBDA it : it.stationCode = c)
DistinctNames(q) == \A i, j \in DOMAIN q : q[i].devName = q[j].devName => i = j
LastNamed(q, n) ==
    q[CHOOSE i \in DOMAIN q :
        /\ q[i].devName = n
        /\ \A j \in DOMAIN q : q[j].devName = n => j <= i]
UnknownStation(it) == it.stationCode \notin DOMAIN carg.plants

\* C15: the construction of a Device whose station code is not a key of the
\* plant mapping fails and adds nothing to any plant's devices: a direct
\* construction leaves the plants as they were, and a device list with such
\* an item fails with only the devices of the items before it added.
C15_DeviceNeedsPlant ==
    /\ (cop = "Device" /\ UnknownStation(carg.item))
        => cres.t = "raise" /\ plants = carg.plants
    /\ (cop = "get_device_list" /\ \E i \in DOMAIN ListItems : UnknownStation(ListItems[i]))
        => /\ cres.t = "raise"
           /\ DOMAIN plants = DOMAIN carg.plants
           /\ \A c \in DOMAIN plants : \A k \in DOMAIN plants[c]._devices :
                LET d == plants[c]._devices[k] IN
                /\ d.station_code = c
                /\ \/ \E m \in DOMAIN carg.plants[c]._devices : carg.plants[c]._devices[m] = d
                   \/ \E i \in DOMAIN ListItems :
                        /\ d._data = ListItems[i]
                        /\ \A j \in 1..i : ~UnknownStation(ListItems[j])

C15_Witness ==
    /\ cop = "Device" /\ carg.item = D5
    /\ DOMAIN plants = {"P1", "P2"}
    /\ DevData(plants["P1"]) = <<D2, D1>>
    /\ cres.t = "raise"

DevNames(p) == [i \in DOMAIN p._devices |-> p._devices[i].name]
DevTypeIds(p) == [i \in DOMAIN p._devices |-> p._devices[i].dev_type_id]
\* the snapshot that saving the mapping ps writes
Saved(ps) == [i \in DOMAIN dict_values(ps) |-> Plant_data(dict_values(ps)[i])]

\* C17: the plants reloaded from the snapshot of the plants have the same
\* codes, and per code the same plant code and name and the same device
\* names and device-type codes in the same order; the reload does not fail,
\* and saving the reloaded plants gives the same snapshot.
C17_SnapshotRoundTrip ==
    /\ cop = "load" => cres.t = "return"
    /\ (snapshot.t = "saved" /\ loaded.t = "loaded" /\ loaded.file = snapshot.file)
        => /\ DOMAIN loaded.plants = DOMAIN plants
           /\ \A c \in DOMAIN plants :
                /\ loaded.plants[c].code = plants[c].code
                /\ loaded.plants[c].name = plants[c].name
                /\ DevNames(loaded.plants[c]) = DevNames(plants[c])
                /\ DevTypeIds(loaded.plants[c]) = DevTypeIds(plants[c])
           /\ Saved(loaded.plants) = snapshot.file

C17_Witness ==
    /\ cop = "load" /\ loaded.t = "loaded"
    /\ DOMAIN plants = {"P1", "P2"}
    /\ DevNames(plants["P1"]) = <<"bat", "inv">>
    /\ DevNames(loaded.plants["P1"]) = <<"bat", "inv">>
    /\ DevTypeIds(loaded.plants["P1"]) = <<39, 38>>
    /\ loaded.plants["P2"]._devices = <<>>

\* C18: the decoding of alarms fails exactly when an item's station code is
\* not a key of the plant mapping; otherwise each alarm has the plant of its
\* station code and, as device, the first of that plant's devices whose name
\* is the alarm's device name, or none, with a warning logged, when no
\* device of the plant has that name. The plants are not changed.
C18_AlarmPlantAndDevice ==
    cop = "AlarmData.from_list"
    => /\ plants = carg.plants
       /\ (cres.t = "raise") = (\E i \in DOMAIN carg.items : UnknownStation(carg.items[i]))
       /\ cres.t \in {"raise", "return"}
       /\ cres.t = "return" =>
            /\ Len(cres.val) = Len(carg.items)
            /\ \A i \in DOMAIN carg.items :
                LET it == carg.items[i]
                    devs == carg.plants[it.stationCode]._devices
                    m == {k \in DOMAIN devs : devs[k].name = it.devName}
                IN /\ cres.val[i]._plant = carg.plants[it.stationCode].code
                   /\ m # {} => \E k \in m : /\ cres.val[i]._device = devs[k]
                                             /\ \A j \in m : k <= j
                   /\ m = {} => cres.val[i]._device = NoDevice
            /\ Len(log) = Cardinality({i \in DOMAIN cres.val : cres.val[i]._device = NoDevice})
            /\ \A k \in DOMAIN log : log[k].level = "warning"

C18_Witness ==
    /\ cop = "AlarmData.from_list" /\ cres.t = "return"
    /\ carg.items = <<AlarmItem("P1", "inv"), AlarmItem("P1", "none")>>
    /\ cres.val[1]._device = DeviceObj(D3, "P1")
    /\ cres.val[2]._device = NoDevice
    /\ Len(log) = 1

-----------------------------------------------------------------------------
(* Properties of the field accessors *)

\* the map the accessor read last looks its field up in, when there is one
ItemAccessor == carg.builder \in {"data_item_prop", "data_item_prop_opt"}
HasLookupMap == ~ItemAccessor \/ carg._data.hasmap
LookupMap == IF ItemAccessor THEN carg._data.dataItemMap ELSE carg._data.top
\* the conversion applied to a raw value, as the claim describes it
Converted(conv, v) ==
    CASE conv = "float" -> float(v)
      [] conv = "from_timestamp" -> from_timestamp(v)
      [] OTHER -> CReturn(v)

\* Python's ==: numbers are equal by value, whatever their type
PyEqual(a, b) ==
    \/ a = b
    \/ a.ty \in {"int", "float"} /\ b.ty \in {"int", "float"} /\ a.n = b.n

\* C19: reading a field accessor does not change the backing map; when the
\* field is in the map it yields the conversion of the raw value (the raw
\* value without a conversion); when it is not, it yields the declared
\* default, or fails with a missing-field error naming the field when no
\* default was declared.
C19_AccessorReads ==
    (cop = "getter")
    => /\ self_data = carg._data
       /\ HasLookupMap =>
            IF carg.field \in DOMAIN LookupMap
            THEN cres = Converted(carg.conv, LookupMap[carg.field])
            ELSE IF carg.hasdefault
                 THEN cres.t = "return" /\ PyEqual(cres.val, carg.default)
                 ELSE cres = ORaise("KeyError", carg.field)

-----------------------------------------------------------------------------
(* Properties of the scope of a Session *)

\* C20: when the scope of a Session ends, the transport session has been
\* closed, whether the scope ends because the login of the scope entry
\* failed, or through the scope exit with a logout that succeeds or fails.
C20_ReleasedOnEveryExit ==
    /\ op = "exit" => closed
    /\ (op = "enter" /\ result.t = "raise") => closed

-----------------------------------------------------------------------------
(* Properties of the states of a Session *)

\* the server accepted the login request ev: login() stores its token
LoginAccepted(ev) == ev.ep = "login" /\ ev.resp.t = "ok"
\* the call sent last by the running (or last) operation is an accepted login
JustLoggedIn == hist # <<>> /\ LoginAccepted(Last(hist))
\* logout() has returned: the instance is LoggedOut by logout()
LoggedOutByLogout == op \in {"logout", "exit"} /\ result.t = "return"

\* C21 (as stated): once logout() has returned, no operation called
\* afterwards on the instance logs it in again: the call that follows a
\* returned logout() is no accepted login, and after the scope exit whose
\* logout() returned (it closed the transport) no login is accepted, in
\* particular none inside a post().
C21_LogoutTerminal ==
    /\ [][LoggedOutByLogout => ~JustLoggedIn']_vars
    /\ [](closed => ~JustLoggedIn)

\* C21 (amended): the instance is logged in only by a login request that the
\* server accepts, and such a request is sent only by login(), by the scope
\* entry, or by post() right after its request to the endpoint was answered
\* with 305; this also holds after logout(), whose LoggedOut state is
\* therefore not terminal.
C21_LoggedInOnlyByLogin ==
    [][ (hist' # hist /\ hist' # <<>> /\ Last(hist').ep = "login")
        => \/ op' \in {"login", "enter"} /\ Len(hist') = 1
           \/ /\ op' = "post" /\ login_again
              /\ hist # <<>> /\ Last(hist).ep = ep /\ Is305(Last(hist).resp)
              /\ hist' = Append(hist, Last(hist')) ]_vars

\* after a scope exit whose logout() returned (the transport was closed), a
\* post() was answered with 305, logged in again and got its answer
C21_Witness ==
    /\ closed /\ op = "post" /\ pc = "idle" /\ Len(hist) = 3
    /\ Is305(hist[1].resp) /\ LoginAccepted(hist[2])
    /\ result.t = "return" /\ xsrf = "t2"

\* the token an accepted login response hands out (header first, else cookie)
Token(r) == IF r.hdr # NoTok THEN r.hdr ELSE r.cookie
\* a network call is sent by the step
Sends == hist' # hist /\ hist' # <<>>

\* C22: every call sent after an accepted login, up to the next accepted
\* login, carries in the XSRF-TOKEN header the token of that login: inside
\* one operation (first conjunct) and from one operation to the next (the
\* header sent is the stored one, and the stored one changes exactly at an
\* accepted login, to the token of that login).
C22_RequestsCarryLoginToken ==
    /\ [](\A i, j \in DOMAIN hist :
            (/\ i < j
             /\ LoginAccepted(hist[i])
             /\ \A k \in DOMAIN hist : (i < k /\ k < j) => ~LoginAccepted(hist[k]))
            => hist[j].hdr = Token(hist[i].resp))
    /\ [][ /\ Sends => /\ Last(hist').hdr = xsrf
                       /\ xsrf' = IF LoginAccepted(Last(hist'))
                                  THEN Token(Last(hist').resp)
                                  ELSE xsrf
           /\ xsrf' # xsrf => Sends ]_vars

\* a post() sent its request with the token of an earlier login, was answered
\* with 305, logged in again and sent the retry with the new token
C22_Witness ==
    /\ op = "post" /\ pc = "idle" /\ Len(hist) = 3
    /\ hist[1].hdr = "t1" /\ Is305(hist[1].resp)
    /\ LoginAccepted(hist[2]) /\ Token(hist[2].resp) = "t3"
    /\ hist[3].ep = ep /\ hist[3].hdr = "t3" /\ xsrf = "t3"

\* C23: an authentication request carries no token of an earlier login,
\* neither in the XSRF-TOKEN header nor in the cookie jar, and once a login
\* has failed the session holds no token.
C23_LoginClearsToken ==
    /\ \A i \in DOMAIN hist :
          hist[i].ep = "login" => hist[i].hdr = NoTok /\ hist[i].ck = NoTok
    /\ (hist # <<>> /\ Last(hist).ep = "login" /\ ~LoginAccepted(Last(hist)))
          => xsrf = NoTok /\ cookies = NoTok

\* C24: inside post(), a request answered with a failure whose code is not
\* 305 (or with an HTTP error or a body that is not JSON) is the last call
\* of the operation: post() has raised, no login and no further request
\* follows it.
C24_OnlyCode305Retries ==
    op = "post"
    => \A i \in DOMAIN hist :
          (hist[i].ep # "login" /\ hist[i].resp.t # "ok" /\ ~Is305(hist[i].resp))
          => /\ i = Len(hist)
             /\ pc = "idle"
             /\ result.t = "raise"
             /\ hist[i].resp.t = "fail" => result.code = hist[i].resp.code

\* the first request of a post() was answered with the fail code 401
C24_Witness ==
    /\ op = "post" /\ pc = "idle" /\ Len(hist) = 1
    /\ hist[1].ep = ep /\ hist[1].resp.t = "fail" /\ hist[1].resp.code = 401
    /\ result = Raise("Permission", 401, "d1")

\* the answers to an authentication call that login() turns into LoginFailed
\* in its own handlers: the not-authenticated code and the empty body the
\* server sends for an unknown user
InvalidCredentials(r) == Is305(r) \/ r = BadJson

\* C25: inside post(), a re-login refused for invalid credentials is the
\* last call of the operation: post() has raised LoginFailed and the request
\* is not sent again; so a post() on a session that never logged in sends
\* its request once, logs in once and raises LoginFailed.
C25_ReloginFailed ==
    op = "post"
    => \A i \in DOMAIN hist :
          (hist[i].ep = "login" /\ InvalidCredentials(hist[i].resp))
          => /\ i = Len(hist)
             /\ i > 1 /\ hist[i - 1].ep = ep /\ Is305(hist[i - 1].resp)
             /\ pc = "idle"
             /\ result = Raise("LoginFailed", 0, "")
             /\ i = 2 => Requests(hist) = 1 /\ Logins(hist) = 1

\* a post() on a session that never logged in: the request went without a
\* token, was answered with 305, and the login got the empty body
C25_Witness ==
    /\ op = "post" /\ pc = "idle" /\ xsrf = NoTok /\ ~closed
    /\ Len(hist) = 2
    /\ hist[1].ep = ep /\ hist[1].hdr = NoTok /\ Is305(hist[1].resp)
    /\ hist[2] = SentLogin(BadJson)
    /\ result.kind = "LoginFailed"

-----------------------------------------------------------------------------
(* Properties of the request loops of the Client *)

\* C26: the requests of a client operation go one after another, each
\* answered before the next is sent (a step sends at most one request and
\* ends with its answer); a request that fails is the last one of the
\* operation, which has ended with that very error and no result.
C26_SequentialRequests ==
    /\ [](/\ Len(creqs) = Len(cresps)
          /\ \A k \in DOMAIN cresps :
                cresps[k].t = "raise"
                => /\ k = Len(cresps)
                   /\ cpc = "done"
                   /\ cres = cresps[k])
    /\ [][ /\ Len(creqs') <= Len(creqs) + 1
           /\ Len(creqs') = Len(creqs) + 1
                => /\ creqs = SubSeq(creqs', 1, Len(creqs))
                   /\ cresps = SubSeq(cresps', 1, Len(cresps)) ]_vars

\* the second batch of three failed after the first had brought data
C26_Witness ==
    /\ cop = "_get_plant_data" /\ cpc = "done"
    /\ Len(todo) = 2 /\ Len(creqs) = 2 /\ data # <<>>
    /\ cresps[1].t = "ok" /\ cresps[2] = [t |-> "raise", kind |-> "HTTPError"]
    /\ cres = [t |-> "raise", kind |-> "HTTPError"]

\* the answer to the request of page k reports a page count of at most k
LastPage(k) == cresps[k].t = "ok" /\ cresps[k].pageCount <= k

\* C27: get_plant_list requests the pages 1, 2, ... in order; it has returned
\* exactly when a page k was answered with a page count <= k, that page is
\* then the last one requested and the first such page, and at least one
\* request was sent (also when the page count is 0).
C27_PlantListStops ==
    cop = "get_plant_list"
    => /\ \A k \in DOMAIN creqs : creqs[k].pageNo = k
       /\ (cres.t = "return") = (\E k \in DOMAIN cresps : LastPage(k))
       /\ \A k \in DOMAIN cresps : LastPage(k) => k = Len(cresps) /\ cpc = "done"
       /\ cres.t = "return" => Len(creqs) >= 1
       /\ (cpc = "loop" /\ \A k \in DOMAIN cresps : cresps[k].t = "ok")
            => page = Len(cresps) + 1

\* the first answer announced three pages, the second none: the call
\* returned after page 2
C27_Witness ==
    /\ cop = "get_plant_list" /\ cpc = "done" /\ cres.t = "return"
    /\ Len(creqs) = 2
    /\ cresps[1].pageCount = 3 /\ cresps[2].pageCount = 0

-----------------------------------------------------------------------------
(* Properties of the devices of the plants *)

\* the index of the first item of the response whose station is unknown
FirstUnknown ==
    CHOOSE f \in DOMAIN ListItems :
        /\ UnknownStation(ListItems[f])
        /\ \A j \in 1..(f - 1) : ~UnknownStation(ListItems[j])

\* C28: when the device list of a response has an item of an unknown
\* station, the call raises and returns no mapping, and yet every item before
\* the first such item has left its device in the devices of its plant
\* (unless a later one of these items took its name in the same plant).
C28_FromListNotAtomic ==
    (cop = "get_device_list" /\ \E i \in DOMAIN ListItems : UnknownStation(ListItems[i]))
    => /\ cres = ORaise("ValueError", ListItems[FirstUnknown].stationCode)
       /\ \A j \in 1..(FirstUnknown - 1) :
            LET it == ListItems[j] IN
            (\A k \in (j + 1)..(FirstUnknown - 1) :
                ~(ListItems[k].stationCode = it.stationCode
                  /\ ListItems[k].devName = it.devName))
            => \E m \in DOMAIN plants[it.stationCode]._devices :
                    /\ plants[it.stationCode]._devices[m]._data = it
                    /\ plants[it.stationCode]._devices[m]._plant = it.stationCode

\* the second item of the response is of an unknown station: the device of
\* the first item is in plant P1, which had no device before
C28_Witness ==
    /\ cop = "get_device_list" /\ ListItems = <<D2, D5>>
    /\ cres.t = "raise"
    /\ carg.plants["P1"]._devices = <<>>
    /\ DevData(plants["P1"]) = <<D2>>

\* C29: in a plant mapping every plant is under its own code, every device
\* of a plant's collection has the plant's code as station code and the plant
\* as its plant, and no device is in the collections of two plants.
C29_DevicesBelongToPlant ==
    \A c \in DOMAIN plants :
        /\ plants[c].code = c
        /\ \A k \in DOMAIN plants[c]._devices :
             LET d == plants[c]._devices[k] IN
             /\ d.station_code = plants[c].code
             /\ d._plant = plants[c].code
             /\ \A c2 \in DOMAIN plants \ {c} :
                  \A m \in DOMAIN plants[c2]._devices : plants[c2]._devices[m] # d

\* after a get_plant_list of two pages, a get_device_list has put a device
\* into each of the two plants
C29_Witness ==
    /\ page = 2 /\ cop = "get_device_list" /\ cres.t = "return"
    /\ DOMAIN plants = {"P1", "P2"}
    /\ DevData(plants["P1"]) = <<D1>>
    /\ DevData(plants["P2"]) = <<D4>>

-----------------------------------------------------------------------------
(* Properties of the device filter of the public operations *)

RealtimeEndpoints == {"getDevRealKpi", "getDevHistoryKpi"}
ReportEndpoints == {"getDevKpiDay", "getDevKpiMonth", "getDevKpiYear"}
\* the type codes that have a decoding class in the domain of the endpoint
RegisteredCodes(e) ==
    IF e \in RealtimeEndpoints THEN DOMAIN RT_DEVICE_CLASSES ELSE DOMAIN RPT_DEVICE_CLASSES
\* the ids of the devices given whose type has no class in that domain
Unregistered(e) ==
    {carg.devices[i].id : i \in {j \in DOMAIN carg.devices :
                                    carg.devices[j].dev_type_id \notin RegisteredCodes(e)}}

\* C30: a public device-data operation filters with the type codes of the
\* registry of its domain; every request is for a registered type code and
\* lists devices of that type only, and a device of an unregistered type is
\* in no request, in no item of the data gathered and in no record returned.
C30_RegisteredDevicesOnly ==
    (cop \in {"_get_device_data", "get_device_history_data"}
        /\ carg.endpoint \in RealtimeEndpoints \cup ReportEndpoints)
    => /\ carg.device_filter = RegisteredCodes(carg.endpoint)
       /\ \A k \in DOMAIN creqs :
            /\ creqs[k].devTypeId \in RegisteredCodes(carg.endpoint)
            /\ \A i \in DOMAIN creqs[k].batch :
                 /\ creqs[k].batch[i].dev_type_id = creqs[k].devTypeId
                 /\ creqs[k].batch[i].id \notin Unregistered(carg.endpoint)
       /\ \A i \in DOMAIN data : data[i].devId \notin Unregistered(carg.endpoint)
       /\ (cres.t = "return")
            => \A i \in DOMAIN cres.val :
                 IF cop = "get_device_history_data"
                 THEN cres.val[i]._dev_id \notin Unregistered(carg.endpoint)
                 ELSE cres.val[i].devId \notin Unregistered(carg.endpoint)

\* a daily query for an inverter and a power sensor: the sensor has a
\* realtime class only, the one request is for the inverter
C30_Witness ==
    /\ cop = "_get_device_data" /\ carg.endpoint = "getDevKpiDay"
    /\ carg.devices = <<Device(499, 47), Device(498, 1)>>
    /\ cpc = "done" /\ Len(creqs) = 1 /\ creqs[1].batch = <<Device(498, 1)>>
    /\ cres = CReturn(<<[devId |-> 498]>>)

=============================================================================
